---- MODULE Spec2Model ----
(***************************************************************************)
(* Model of standalone/download-vsix.py: the Extension dataclass (parsing  *)
(* of a reference, version query against the marketplace page, URL and     *)
(* filename templates) and one run of cli().                               *)
(*                                                                         *)
(* Strings are sequences of one-character strings.  Python's None is the   *)
(* value NoneV, which is falsy like "" but formats as the text "None".     *)
(***************************************************************************)
EXTENDS Integers, Sequences, FiniteSets, TLC

\* Longest text that follows the (optional) marketplace prefix in an input.
MaxLen == 5

\* Characters the inputs are drawn from: a letter and the two separators.
Chars == {"a", ".", "@"}

RECURSIVE SeqsUpTo(_)
SeqsUpTo(n) ==
    IF n = 0 THEN {<<>>}
    ELSE LET shorter == SeqsUpTo(n - 1)
         IN  shorter \cup {Append(s, c) : s \in {t \in shorter : Len(t) = n - 1}, c \in Chars}

(***************************************************************************)
(* String constants of the script.                                         *)
(***************************************************************************)
MarketplacePrefix ==
    <<"h", "t", "t", "p", "s", ":", "/", "/", "m", "a", "r", "k", "e",
      "t", "p", "l", "a", "c", "e", ".", "v", "i", "s", "u", "a", "l",
      "s", "t", "u", "d", "i", "o", ".", "c", "o", "m", "/", "i", "t",
      "e", "m", "s", "?", "i", "t", "e", "m", "N", "a", "m", "e", "=">>

VsixBase ==
    <<"h", "t", "t", "p", "s", ":", "/", "/", "m", "a", "r", "k", "e",
      "t", "p", "l", "a", "c", "e", ".", "v", "i", "s", "u", "a", "l",
      "s", "t", "u", "d", "i", "o", ".", "c", "o", "m", "/", "_", "a",
      "p", "i", "s", "/", "p", "u", "b", "l", "i", "c", "/", "g", "a",
      "l", "l", "e", "r", "y", "/", "p", "u", "b", "l", "i", "s", "h",
      "e", "r", "s", "/">>

VsixMid ==
    <<"/", "v", "s", "e", "x", "t", "e", "n", "s", "i", "o", "n", "s", "/">>

VsixTail ==
    <<"/", "v", "s", "p", "a", "c", "k", "a", "g", "e">>

VsixSuffix ==
    <<".", "v", "s", "i", "x">>

(***************************************************************************)
(* Python values.                                                          *)
(***************************************************************************)
\* None: a one-element sequence whose element is no character.
NoneV == <<"<None>">>

\* str(None), as an f-string renders it.
NoneText == <<"N", "o", "n", "e">>

\* `not v` for a str-or-None value.
Falsy(v) == v = <<>> \/ v = NoneV

\* f"{v}" for a str-or-None value.
Format(v) == IF v = NoneV THEN NoneText ELSE v

\* str.startswith
StartsWith(s, p) == Len(s) >= Len(p) /\ SubSeq(s, 1, Len(p)) = p

\* str.removeprefix
RemovePrefix(s, p) == IF StartsWith(s, p) THEN SubSeq(s, Len(p) + 1, Len(s)) ELSE s

\* Index of the first occurrence of c in s, 0 when there is none.
Find(s, c) ==
    IF \E i \in 1..Len(s) : s[i] = c
    THEN CHOOSE i \in 1..Len(s) : s[i] = c /\ \A j \in 1..(i - 1) : s[j] # c
    ELSE 0

\* str.partition(c): (head, tail); everything is head when c does not occur.
Partition(s, c) ==
    LET i == Find(s, c)
    IN  IF i = 0 THEN [head |-> s, tail |-> <<>>]
        ELSE [head |-> SubSeq(s, 1, i - 1), tail |-> SubSeq(s, i + 1, Len(s))]

(***************************************************************************)
(* class Extension                                                         *)
(***************************************************************************)
\* The dataclass constructor; version defaults to str() = "".
Extension(name, publisher, version) ==
    [publisher |-> publisher, name |-> name, version |-> version]

FromUrlSwapped(url) ==
    LET p == Partition(RemovePrefix(url, MarketplacePrefix), ".")
    IN  [ok |-> StartsWith(url, MarketplacePrefix),
         ext |-> Extension(p.head, p.tail, <<>>)]

\* Extension.from_url: ok = FALSE is the ValueError.
FromUrl(url) ==
    LET p == Partition(RemovePrefix(url, MarketplacePrefix), ".")
    IN  [ok |-> StartsWith(url, MarketplacePrefix),
         ext |-> Extension(p.tail, p.head, <<>>)]

FromNameSwapped(extension_spec) ==
    LET a == Partition(extension_spec, "@")
        b == Partition(a.head, ".")
    IN  Extension(b.head, b.tail, a.tail)

\* Extension.from_name
FromName(extension_spec) ==
    LET a == Partition(extension_spec, "@")
        b == Partition(a.head, ".")
    IN  Extension(b.tail, b.head, a.tail)

\* Extension.marketplace_url
MarketplaceUrl(e) == MarketplacePrefix \o e.publisher \o <<".">> \o e.name

\* Extension.default_filename
DefaultFilename(e) ==
    e.publisher \o <<".">> \o e.name \o <<"-">> \o Format(e.version) \o VsixSuffix

\* The f-string of vsix_url.
VsixTemplate(e) ==
    VsixBase \o e.publisher \o VsixMid \o e.name \o <<"/">> \o Format(e.version) \o VsixTail

(***************************************************************************)
(* What the marketplace can answer to the GET of the detail page.          *)
(*   conn_error    requests.get raises                                     *)
(*   http_error    a response that is falsy (status >= 400)                *)
(*   no_jiContent  no <script class="jiContent">                           *)
(*   bad_json      the script's text is no JSON                            *)
(*   no_Resources  JSON object without "Resources"                         *)
(*   ok            Resources present; Version/PublisherName/ExtensionName  *)
(*                 as given, NoneV when the key is missing or null         *)
(***************************************************************************)
MetaVersions == {NoneV, <<>>, <<"1">>, <<"2">>}

FailKinds == {"conn_error", "http_error", "no_jiContent", "bad_json", "no_Resources"}

Responses(e) ==
    {[kind |-> k, Version |-> NoneV, PublisherName |-> NoneV, ExtensionName |-> NoneV] :
        k \in FailKinds}
    \cup
    {[kind |-> "ok", Version |-> v, PublisherName |-> pn.p, ExtensionName |-> pn.n] :
        v \in MetaVersions,
        pn \in {[p |-> e.publisher, n |-> e.name], [p |-> <<"A">>, n |-> <<"B">>]}}

\* The exception class each failure of query_version raises.
RaisedBy(kind) ==
    CASE kind = "conn_error"   -> "ConnectionError"
      [] kind = "http_error"   -> "RuntimeError"
      [] kind = "no_jiContent" -> "RuntimeError"
      [] kind = "bad_json"     -> "JSONDecodeError"
      [] kind = "no_Resources" -> "KeyError"
      [] OTHER                 -> "none"

QueryVersionOverwriting(e, r) ==
    IF r.kind = "ok"
    THEN [ext |-> Extension(r.ExtensionName, r.PublisherName, r.Version),
          raised |-> "none", site |-> "none"]
    ELSE [ext |-> e, raised |-> RaisedBy(r.kind), site |-> r.kind]

\* Extension.query_version against response r: the identity afterwards and the
\* exception raised ("none" when it returns).
QueryVersion(e, r) ==
    IF r.kind = "ok"
    THEN [ext |-> [e EXCEPT !.version = r.Version], raised |-> "none", site |-> "none"]
    ELSE [ext |-> e, raised |-> RaisedBy(r.kind), site |-> r.kind]

VsixUrlNoQuery(e, r) ==
    [ext |-> e, raised |-> "none", site |-> "none", requests |-> 0, writes |-> 0,
     url |-> VsixTemplate(e)]

\* Extension.vsix_url read while the marketplace would answer r: the identity
\* afterwards, the exception raised, the metadata requests issued, the
\* assignments to version, and the URL returned (<<>> when it raised).
VsixUrl(e, r) ==
    IF Falsy(e.version)
    THEN LET q == QueryVersion(e, r)
         IN  [ext |-> q.ext, raised |-> q.raised, site |-> q.site, requests |-> 1,
              writes |-> IF q.raised = "none" THEN 1 ELSE 0,
              url |-> IF q.raised = "none" THEN VsixTemplate(q.ext) ELSE <<>>]
    ELSE [ext |-> e, raised |-> "none", site |-> "none", requests |-> 0, writes |-> 0,
          url |-> VsixTemplate(e)]

(***************************************************************************)
(* One run of cli().                                                       *)
(***************************************************************************)
VARIABLES
    input,          \* args.url_or_name
    download,       \* args.download
    output,         \* what args.output names: "dir", "in_dir" (its parent is a
                    \* directory) or "nowhere"
    pc,             \* position of the run in cli()
    ext,            \* the Extension
    metaRequests,   \* GETs of the marketplace detail page issued so far
    pkgRequests,    \* GETs of the package URL issued so far
    versionWrites,  \* assignments to ext.version by query_version so far
    stdout,         \* lines printed so far
    download_url,   \* the local of that name
    dest,           \* the local of that name
    file,           \* "none", or what was written to dest
    page,           \* the last answer of the marketplace to a metadata GET
    err,            \* class of the exception that ended the run, "none" if none
    errSite         \* where it was raised

vars == <<input, download, output, pc, ext, metaRequests, pkgRequests, versionWrites,
          stdout, download_url, dest, file, page, err, errSite>>

Inputs ==
    LET rests == SeqsUpTo(MaxLen)
    IN  rests \cup {MarketplacePrefix \o s : s \in rests}

Outputs == {"dir", "in_dir", "nowhere"}

NoExt == Extension(<<>>, <<>>, <<>>)

NoDest == [kind |-> "unset", filename |-> <<>>]

NoPage == [kind |-> "none", Version |-> NoneV, PublisherName |-> NoneV, ExtensionName |-> NoneV]

Init ==
    /\ input \in Inputs
    /\ download \in BOOLEAN
    /\ output \in Outputs
    /\ download \/ output = "dir"      \* --output defaults to "." and is read
                                       \* in download mode only
    /\ pc = "parse"
    /\ ext = NoExt
    /\ metaRequests = 0
    /\ pkgRequests = 0
    /\ versionWrites = 0
    /\ stdout = <<>>
    /\ download_url = <<>>
    /\ dest = NoDest
    /\ file = "none"
    /\ page = NoPage
    /\ err = "none"
    /\ errSite = "none"

\* try: Extension.from_url(...) except: Extension.from_name(...)
ParseReference(s) ==
    LET u == FromUrl(s)
    IN  IF u.ok THEN u.ext ELSE FromName(s)

\* The run ends with an exception.
Raise(class, site) ==
    /\ pc' = "failed"
    /\ err' = class
    /\ errSite' = site

Parse ==
    /\ pc = "parse"
    /\ ext' = ParseReference(input)
    /\ pc' = "check_version"
    /\ UNCHANGED <<input, download, output, metaRequests, pkgRequests, versionWrites,
                   stdout, download_url, dest, file, page, err, errSite>>

NeedsQueryAlways(e) == TRUE

\* if not ext.version
NeedsQuery(e) == Falsy(e.version)

\* if not ext.version: ext.query_version()
EnsureVersion ==
    /\ pc = "check_version"
    /\ IF NeedsQuery(ext)
       THEN \E r \in Responses(ext) :
                LET q == QueryVersion(ext, r)
                IN  /\ metaRequests' = metaRequests + 1
                    /\ page' = r
                    /\ ext' = q.ext
                    /\ IF q.raised = "none"
                       THEN /\ versionWrites' = versionWrites + 1
                            /\ pc' = "mode"
                            /\ UNCHANGED <<err, errSite>>
                       ELSE /\ Raise(q.raised, q.site)
                            /\ UNCHANGED versionWrites
       ELSE /\ pc' = "mode"
            /\ UNCHANGED <<ext, metaRequests, versionWrites, page, err, errSite>>
    /\ UNCHANGED <<input, download, output, pkgRequests, stdout, download_url, dest, file>>

\* Reading ext.vsix_url at a point of cli() that continues at `next`; the URL
\* is assigned to download_url (line = "assign") or printed as `line`.
ReadVsixUrl(next, line) ==
    \E r \in Responses(ext) :
        LET v == VsixUrl(ext, r)
        IN  /\ ext' = v.ext
            /\ metaRequests' = metaRequests + v.requests
            /\ page' = IF v.requests > 0 THEN r ELSE page
            /\ versionWrites' = versionWrites + v.writes
            /\ IF v.raised = "none"
               THEN /\ pc' = next
                    /\ IF line = "assign"
                       THEN /\ download_url' = v.url
                            /\ UNCHANGED stdout
                       ELSE /\ stdout' = Append(stdout, [line |-> line, value |-> v.url])
                            /\ UNCHANGED download_url
                    /\ UNCHANGED <<err, errSite>>
               ELSE /\ Raise(v.raised, v.site)
                    /\ UNCHANGED <<stdout, download_url>>

\* if not args.download: print(ext.vsix_url); return
PrintUrl ==
    /\ pc = "mode"
    /\ ~download
    /\ ReadVsixUrl("done", "url")
    /\ UNCHANGED <<input, download, output, pkgRequests, dest, file>>

ResolveDestUnchecked ==
    /\ pc = "mode"
    /\ download
    /\ IF output = "dir"
       THEN dest' = [kind |-> "in_dir", filename |-> DefaultFilename(ext)]
       ELSE dest' = [kind |-> "as_given", filename |-> <<>>]
    /\ pc' = "download_url"
    /\ UNCHANGED <<input, download, output, ext, metaRequests, pkgRequests, versionWrites,
                   stdout, download_url, file, page, err, errSite>>

\* The is_dir() tests on args.output.
ResolveDest ==
    /\ pc = "mode"
    /\ download
    /\ CASE output = "dir" ->
                /\ dest' = [kind |-> "in_dir", filename |-> DefaultFilename(ext)]
                /\ pc' = "download_url"
                /\ UNCHANGED <<err, errSite>>
         [] output = "in_dir" ->
                /\ dest' = [kind |-> "as_given", filename |-> <<>>]
                /\ pc' = "download_url"
                /\ UNCHANGED <<err, errSite>>
         [] OTHER ->
                /\ Raise("ValueError", "invalid_output")
                /\ UNCHANGED dest
    /\ UNCHANGED <<input, download, output, ext, metaRequests, pkgRequests, versionWrites,
                   stdout, download_url, file, page>>

\* download_url = ext.vsix_url
GetDownloadUrl ==
    /\ pc = "download_url"
    /\ ReadVsixUrl("announce", "assign")
    /\ UNCHANGED <<input, download, output, pkgRequests, dest, file>>

\* print(f"Downloading from URL: {ext.vsix_url}"); print(f"Saving to: {dest}")
Announce ==
    /\ pc = "announce"
    /\ ReadVsixUrl("get", "downloading")
    /\ UNCHANGED <<input, download, output, pkgRequests, dest, file>>

\* requests.get(download_url, stream=True), then the body written to dest.
\* The response's status is not looked at: an error page is written like a
\* package.  requests.get and open can raise.
Download ==
    /\ pc = "get"
    /\ pkgRequests' = pkgRequests + 1
    /\ \E got \in {"package", "error_page", "conn_error"}, opened \in BOOLEAN :
          IF got = "conn_error"
          THEN /\ Raise("ConnectionError", "download")
               /\ UNCHANGED file
          ELSE IF ~opened
               THEN /\ Raise("OSError", "open")
                    /\ UNCHANGED file
               ELSE /\ file' = got
                    /\ pc' = "done"
                    /\ UNCHANGED <<err, errSite>>
    /\ UNCHANGED <<input, download, output, ext, metaRequests, versionWrites, stdout,
                   download_url, dest, page>>

Next ==
    \/ Parse
    \/ EnsureVersion
    \/ PrintUrl
    \/ ResolveDest
    \/ GetDownloadUrl
    \/ Announce
    \/ Download

Spec == Init /\ [][Next]_vars

(***************************************************************************)
(* Properties.                                                             *)
(***************************************************************************)
\* A publisher or a name: non-empty, without "." and "@".
Plain(s) == s # <<>> /\ \A j \in 1..Len(s) : s[j] \notin {".", "@"}

\* s is publisher.name@version with the "@" at k.
VersionedSpec(s) ==
    LET i == Find(s, ".")
        k == Find(s, "@")
    IN  k > 0 /\ Plain(SubSeq(s, 1, i - 1)) /\ Plain(SubSeq(s, i + 1, k - 1))

\* s is publisher.name, without "@".
UnversionedSpec(s) ==
    LET i == Find(s, ".")
    IN  Find(s, "@") = 0 /\ Plain(SubSeq(s, 1, i - 1)) /\ Plain(SubSeq(s, i + 1, Len(s)))

\* The text of s before its first "." / between it and the first "@" / after
\* the first "@".
PublisherText(s) == SubSeq(s, 1, Find(s, ".") - 1)
NameText(s) ==
    SubSeq(s, Find(s, ".") + 1, IF Find(s, "@") = 0 THEN Len(s) ELSE Find(s, "@") - 1)
VersionText(s) == IF Find(s, "@") = 0 THEN <<>> ELSE SubSeq(s, Find(s, "@") + 1, Len(s))

\* What follows the marketplace prefix in a URL input.
AfterPrefix(s) == SubSeq(s, Len(MarketplacePrefix) + 1, Len(s))

\* The input gives a non-empty version: it is no marketplace URL and text
\* follows its first "@".
GivesVersion(s) ==
    ~StartsWith(s, MarketplacePrefix) /\ Find(s, "@") > 0 /\ Find(s, "@") < Len(s)

\* The package URL of (publisher, name, version text).
PackageUrl(p, n, v) == VsixBase \o p \o VsixMid \o n \o <<"/">> \o v \o VsixTail

\* The text an absent or present version contributes to a URL or filename.
VersionShown(v) == IF v = NoneV THEN <<"N", "o", "n", "e">> ELSE v

Absent(v) == v = <<>> \/ v = NoneV

\* The run is about to read ext.vsix_url / ext.default_filename.
ReadsVsixUrl == (pc = "mode" /\ ~download) \/ pc \in {"download_url", "announce"}
ReadsDefaultFilename == pc = "mode" /\ download /\ output = "dir"

Ended == pc \in {"done", "failed"}

\* The input is one of the three accepted forms, well formed.
ValidReference(s) ==
    \/ ~StartsWith(s, MarketplacePrefix) /\ (VersionedSpec(s) \/ UnversionedSpec(s))
    \/ StartsWith(s, MarketplacePrefix) /\ UnversionedSpec(AfterPrefix(s))

-----------------------------------------------------------------------------
\* C1 (as claimed): in download mode with a destination that is neither a
\* directory nor inside one, the run fails with the invalid-destination error
\* and no metadata or package request was issued before.  Stated for well
\* formed inputs and a marketplace that answers every request it gets.
C1_NoRequestBeforeInvalidDestination ==
    (ValidReference(input) /\ page.kind \in {"none", "ok"}
        /\ download /\ output = "nowhere" /\ Ended) =>
        /\ pc = "failed" /\ err = "ValueError" /\ errSite = "invalid_output"
        /\ metaRequests = 0
        /\ pkgRequests = 0

\* C1 (amended): with such a destination no package request is ever issued and
\* nothing is printed or written; an input that gives a version fails with
\* ValueError without any request; an input without one has issued exactly one
\* metadata request before the destination is looked at, and fails with
\* ValueError only if that query did not raise.
C1_InvalidDestinationNoPackageRequest ==
    (download /\ output = "nowhere") =>
        /\ pkgRequests = 0 /\ file = "none" /\ stdout = <<>> /\ download_url = <<>>
        /\ pc \in {"parse", "check_version", "mode", "failed"}
        /\ errSite = "invalid_output" => err = "ValueError"
        /\ GivesVersion(input) =>
              /\ metaRequests = 0
              /\ pc = "failed" => errSite = "invalid_output"
        /\ (~GivesVersion(input) /\ pc \in {"mode", "failed"}) =>
              /\ metaRequests = 1
              /\ errSite \in FailKinds \cup {"none", "invalid_output"}
              /\ errSite = "invalid_output" => page.kind = "ok"

C1_Witness ==
    /\ download /\ output = "nowhere"
    /\ ~GivesVersion(input)
    /\ pc = "failed" /\ err = "ValueError" /\ metaRequests = 1

-----------------------------------------------------------------------------
\* C2: for an input publisher.name@version with a non-empty version no
\* metadata request is ever issued, in print and in download mode, and every
\* package URL the run produces is the one with the version of the input.
C2_VersionedInputNeedsNoMetadata ==
    (VersionedSpec(input) /\ VersionText(input) # <<>>) =>
        LET url == PackageUrl(PublisherText(input), NameText(input), VersionText(input))
        IN  /\ metaRequests = 0
            /\ page = NoPage
            /\ \A n \in 1..Len(stdout) : stdout[n].value = url
            /\ download_url \in {<<>>, url}
            /\ (pc = "done" /\ ~download) => stdout = <<[line |-> "url", value |-> url]>>
            /\ pc \in {"get", "done"} /\ download => download_url = url

C2_Witness ==
    /\ VersionedSpec(input) /\ VersionText(input) # <<>>
    /\ pc = "done" /\ download /\ file = "package"

-----------------------------------------------------------------------------
\* C3: parsing a valid compact spec publisher.name@version yields exactly
\* (publisher, name, version), and parsing publisher.name yields the publisher
\* and name with the version absent.
C3_CompactSpecParsedExactly ==
    pc = "check_version" =>
        /\ VersionedSpec(input) =>
              ext = [publisher |-> PublisherText(input), name |-> NameText(input),
                     version |-> VersionText(input)]
        /\ UnversionedSpec(input) =>
              ext = [publisher |-> PublisherText(input), name |-> NameText(input),
                     version |-> <<>>]

C3_Witness ==
    /\ pc = "check_version"
    /\ VersionedSpec(input)
    /\ VersionText(input) # <<>>
    /\ ext.version = VersionText(input)

-----------------------------------------------------------------------------
\* C4: parsing the marketplace URL of publisher.name yields the identity that
\* parsing the compact spec publisher.name yields: that publisher, that name,
\* no version.
C4_UrlParsesLikeCompactSpec ==
    (pc = "check_version" /\ StartsWith(input, MarketplacePrefix)
                          /\ UnversionedSpec(AfterPrefix(input))) =>
        /\ ext = ParseReference(AfterPrefix(input))
        /\ ext.publisher = PublisherText(AfterPrefix(input))
        /\ ext.name = NameText(AfterPrefix(input))
        /\ ext.version = <<>>

C4_Witness ==
    /\ pc = "check_version"
    /\ StartsWith(input, MarketplacePrefix)
    /\ UnversionedSpec(AfterPrefix(input))
    /\ Len(ext.publisher) # Len(ext.name)

-----------------------------------------------------------------------------
\* C5 (as claimed): when the publisher/name part of the input has no ".",
\* parsing fails with a malformed-reference error and yields no identity, so
\* that no identity has an empty publisher or an empty name.
C5_NoDotIsRejected ==
    pc # "parse" =>
        LET ref == IF StartsWith(input, MarketplacePrefix)
                   THEN AfterPrefix(input)
                   ELSE Partition(input, "@").head
        IN  /\ Find(ref, ".") = 0 =>
                  pc = "failed" /\ errSite = "parse" /\ err = "MalformedReferenceError"
            /\ errSite # "parse" => ext.publisher # <<>> /\ ext.name # <<>>

-----------------------------------------------------------------------------
-----------------------------------------------------------------------------
\* C7 (as claimed): after a version query the version is still absent or a
\* non-empty string: a page whose JSON is malformed, lacks Resources or lacks
\* Version makes the query fail and leaves the version absent; the version is
\* never set to null or to the empty string, and no package URL is built from
\* such a value.
C7_VersionAbsentOrNonEmpty ==
    ValidReference(input) =>
    /\ ext.version # NoneV
    /\ versionWrites > 0 => ext.version # <<>>
    /\ (page.kind \in {"bad_json", "no_Resources"}
            \/ (page.kind = "ok" /\ page.Version = NoneV)) =>
          pc = "failed" /\ Absent(ext.version)
    /\ \A n \in 1..Len(stdout) :
          stdout[n].value \notin {PackageUrl(ext.publisher, ext.name, VersionShown(NoneV)),
                                  PackageUrl(ext.publisher, ext.name, <<>>)}

-----------------------------------------------------------------------------
\* C8 (as claimed): in one run the detail page is requested at most once and
\* the version is assigned at most once.
C8_AtMostOneMetadataRequest ==
    ValidReference(input) => (metaRequests <= 1 /\ versionWrites <= 1)

-----------------------------------------------------------------------------
-----------------------------------------------------------------------------
\* C10 (as claimed): a page without the marker script makes the query fail
\* with an error of another kind than the one a failed request raises and
\* than the ones a bad JSON document raises; the version stays absent, no
\* package URL is printed and no file is written.
C10_MissingMarkerIsADistinctError ==
    (ValidReference(input) /\ errSite = "no_jiContent") =>
        /\ pc = "failed"
        /\ err # RaisedBy("http_error")
        /\ err \notin {RaisedBy("bad_json"), RaisedBy("no_Resources")}
        /\ Absent(ext.version)
        /\ stdout = <<>>
        /\ file = "none"

====
